---- MODULE Spec2Model ----
(***************************************************************************)
(* Money-trail graph engine of PoliticalDonorTracker: the path finder and  *)
(* the graph analytics of utils/pathFinder.ts, modelled as pure operators  *)
(* applied by the actions of a state machine whose state is the network    *)
(* snapshot, the last call and its result.  Two further state machines     *)
(* share the module: the time-to-live cache of services/cache.ts (cache,   *)
(* now), the force layout hook useForceLayout (variant .. pinned), the     *)
(* proxy fallback of FeedService (proxyIndex .. round) and the request     *)
(* deduplication of fetchWithCache (requestCache .. nextRequest).          *)
(*                                                                         *)
(* Conventions.  An optional value (amount?, filterByNodeType?, ...) is    *)
(* the empty sequence when absent and the one-element sequence <<v>> when  *)
(* present.  The null endId is the string Null.  A link carries the field  *)
(* ref, its position in network.links: it stands for the identity of the   *)
(* JavaScript object, so that two links with equal fields stay distinct.   *)
(* Amounts are whole numbers; on whole numbers the double comparison       *)
(* |r - g| < r * 0.2 agrees with the exact comparison 5 * |r - g| < r.     *)
(***************************************************************************)
EXTENDS Integers, Sequences, FiniteSets, TLC

VARIABLES network, call, result, cache, now, written,
          variant, mounted, epoch, inputNodes, sims, simulationRef, cleanupOf,
          nodesState, linksState, isSimulating, rafRef, frames, sinceUpdate, pinned,
          proxyIndex, proxyFailures, feeds, round, requestCache, inFlight, nextRequest

cacheVars == <<cache, now, written>>

layoutVars ==
  <<variant, mounted, epoch, inputNodes, sims, simulationRef, cleanupOf,
    nodesState, linksState, isSimulating, rafRef, frames, sinceUpdate, pinned>>

feedVars == <<proxyIndex, proxyFailures, feeds, round>>

dedupVars == <<requestCache, inFlight, nextRequest>>

serviceVars == <<feedVars, dedupVars>>

vars == <<network, call, result, cacheVars, layoutVars, serviceVars>>

Null == "null"
Undefined == <<>>

----------------------------------------------------------------------------
(* Bounds and input families *)

MaxLinks == 3
MaxHops == 2
MinHops == 0 - 1

Ids == {"A", "B", "C"}

AllNodes ==
  << [id |-> "A", type |-> "donor"],
     [id |-> "B", type |-> "foundation"],
     [id |-> "C", type |-> "media"] >>

NodeLists ==
  { SelectSeq(AllNodes, LAMBDA n : n.id \in S) :
      S \in { Ids, {"A", "B"}, {"B", "C"}, {"C"} } }

LinkPool ==
  { [source |-> "A", target |-> "B", relationship |-> "grant", amount |-> <<2>>],
    [source |-> "B", target |-> "A", relationship |-> "owner", amount |-> Undefined],
    [source |-> "B", target |-> "C", relationship |-> "grant", amount |-> <<1>>],
    [source |-> "A", target |-> "C", relationship |-> "owner", amount |-> <<2>>],
    [source |-> "A", target |-> "A", relationship |-> "grant", amount |-> <<0>>] }

WithRefs(ls) ==
  [i \in 1..Len(ls) |->
     [source |-> ls[i].source, target |-> ls[i].target,
      relationship |-> ls[i].relationship, amount |-> ls[i].amount, ref |-> i]]

LinkLists(pool) == UNION { [1..n -> pool] : n \in 0..MaxLinks }

ShellNodeLists ==
  { SelectSeq(<< [id |-> "A", type |-> "donor"], [id |-> "B", type |-> t],
                 [id |-> "C", type |-> "media"] >>, LAMBDA n : n.id \in S) :
      t \in {"foundation", "shell_org", "donor"}, S \in {Ids} }
  \cup { << [id |-> "A", type |-> "donor"], [id |-> "B", type |-> "foundation"] >> }

ShellPool ==
  { [source |-> e[1], target |-> e[2], relationship |-> "grant", amount |-> a] :
      e \in { <<"A", "B">>, <<"B", "C">> },
      a \in { Undefined, <<19>>, <<20>>, <<21>>, <<100>> } }
  \cup
  { [source |-> "B", target |-> "A", relationship |-> "owner", amount |-> a] :
      a \in { <<19>>, <<21>> } }

ShellNetworks ==
  { [nodes |-> ns, links |-> WithRefs(ls)] : ns \in ShellNodeLists, ls \in LinkLists(ShellPool) }

PathNetworks ==
  { [nodes |-> ns, links |-> WithRefs(ls)] : ns \in NodeLists, ls \in LinkLists(LinkPool) }

MaxMembers == 2

BoardNames == {"p", "q", "r"}

BoardLists ==
  {Undefined} \cup { <<m>> : m \in UNION { [1..n -> BoardNames] : n \in 0..MaxMembers } }

BoardNetworks ==
  { [nodes |-> << [id |-> "A", type |-> "foundation", boardMembers |-> a],
                  [id |-> "B", type |-> "media", boardMembers |-> b] >>,
     links |-> <<>>] : a \in BoardLists, b \in BoardLists }

----------------------------------------------------------------------------
(* findPaths and buildAdjacencyMap *)

RECURSIVE AdjacentOfForwardOnly(_, _, _)
AdjacentOfForwardOnly(links, filterByRelationship, id) ==
  IF links = <<>> THEN <<>>
  ELSE LET link == Head(links)
           rest == AdjacentOfForwardOnly(Tail(links), filterByRelationship, id)
       IN IF filterByRelationship # Undefined
             /\ link.relationship \notin filterByRelationship[1]
          THEN rest
          ELSE (IF link.source = id
                THEN << [targetId |-> link.target, link |-> link] >> ELSE <<>>)
               \o rest

RECURSIVE AdjacentOf(_, _, _)
AdjacentOf(links, filterByRelationship, id) ==
  IF links = <<>> THEN <<>>
  ELSE LET link == Head(links)
           rest == AdjacentOf(Tail(links), filterByRelationship, id)
       IN IF filterByRelationship # Undefined
             /\ link.relationship \notin filterByRelationship[1]
          THEN rest
          ELSE (IF link.source = id
                THEN << [targetId |-> link.target, link |-> link] >> ELSE <<>>)
               \o (IF link.target = id
                   THEN << [targetId |-> link.source, link |-> link] >> ELSE <<>>)
               \o rest

buildAdjacencyMap(net, filterByRelationship) ==
  [id \in Ids |-> AdjacentOf(net.links, filterByRelationship, id)]

nodeMapHas(net, id) == \E i \in 1..Len(net.nodes) : net.nodes[i].id = id

nodeMapGet(net, id) ==
  LET i == CHOOSE j \in 1..Len(net.nodes) :
             /\ net.nodes[j].id = id
             /\ \A k \in (j+1)..Len(net.nodes) : net.nodes[k].id # id
  IN net.nodes[i]

RECURSIVE resolveNodes(_, _)
resolveNodes(net, nodePath) ==
  IF nodePath = <<>> THEN <<>>
  ELSE (IF nodeMapHas(net, Head(nodePath))
        THEN << nodeMapGet(net, Head(nodePath)) >> ELSE <<>>)
       \o resolveNodes(net, Tail(nodePath))

linkAmount(link) == IF link.amount = Undefined THEN 0 ELSE link.amount[1]

alreadyInPathNever(nodePath, targetId) == FALSE

alreadyInPath(nodePath, targetId) == \E i \in 1..Len(nodePath) : nodePath[i] = targetId

overHopBudgetLate(nodePath, maxHops) == Len(nodePath) > maxHops + 2

overHopBudget(nodePath, maxHops) == Len(nodePath) > maxHops + 1

rejectedByNodeTypeNever(net, filterByNodeType, targetId) == FALSE

rejectedByNodeType(net, filterByNodeType, targetId) ==
  /\ filterByNodeType # Undefined
  /\ nodeMapHas(net, targetId)
  /\ nodeMapGet(net, targetId).type \notin filterByNodeType[1]

toMoneyPath(net, current) ==
  [nodes |-> resolveNodes(net, current.nodePath),
   links |-> current.linkPath,
   totalAmount |-> current.totalAmount,
   hopCount |-> Len(current.linkPath)]

RECURSIVE expand(_, _, _, _)
expand(net, current, adjacent, filterByNodeType) ==
  IF adjacent = <<>> THEN <<>>
  ELSE LET a == Head(adjacent)
           rest == expand(net, current, Tail(adjacent), filterByNodeType)
       IN IF alreadyInPath(current.nodePath, a.targetId) THEN rest
          ELSE IF rejectedByNodeType(net, filterByNodeType, a.targetId) THEN rest
          ELSE << [nodeId |-> a.targetId,
                   nodePath |-> Append(current.nodePath, a.targetId),
                   linkPath |-> Append(current.linkPath, a.link),
                   totalAmount |-> current.totalAmount + linkAmount(a.link)] >>
               \o rest

RECURSIVE findPathsLoop(_, _, _, _, _, _)
findPathsLoop(net, adjacencyMap, endId, options, queue, paths) ==
  IF queue = <<>> THEN paths
  ELSE LET current == Head(queue) IN
       IF overHopBudget(current.nodePath, options.maxHops)
       THEN findPathsLoop(net, adjacencyMap, endId, options, Tail(queue), paths)
       ELSE IF endId # Null /\ current.nodeId = endId /\ Len(current.nodePath) > 1
       THEN findPathsLoop(net, adjacencyMap, endId, options, Tail(queue),
                          Append(paths, toMoneyPath(net, current)))
       ELSE findPathsLoop(net, adjacencyMap, endId, options,
              Tail(queue) \o expand(net, current, adjacencyMap[current.nodeId],
                                    options.filterByNodeType),
              IF endId = Null /\ Len(current.nodePath) > 1
              THEN Append(paths, toMoneyPath(net, current)) ELSE paths)

RECURSIVE insertByAmount(_, _)
insertByAmount(x, sorted) ==
  IF sorted = <<>> THEN <<x>>
  ELSE IF Head(sorted).totalAmount > x.totalAmount
       THEN <<Head(sorted)>> \o insertByAmount(x, Tail(sorted))
       ELSE <<x>> \o sorted

sortKeepsOrder(s) == s

RECURSIVE sortByAmountDesc(_)
sortByAmountDesc(s) ==
  IF s = <<>> THEN <<>> ELSE insertByAmount(Head(s), sortByAmountDesc(Tail(s)))

findPaths(net, startId, endId, options) ==
  sortByAmountDesc(
    findPathsLoop(net, buildAdjacencyMap(net, options.filterByRelationship),
                  endId, options,
                  << [nodeId |-> startId, nodePath |-> <<startId>>,
                      linkPath |-> <<>>, totalAmount |-> 0] >>,
                  <<>>))

----------------------------------------------------------------------------
(* getDownstreamRecipients *)

Returned(v) == [threw |-> FALSE, value |-> v]
Threw == [threw |-> TRUE, value |-> <<>>]

recipientIndexNever(recipientMap, id) == 0

recipientIndex(recipientMap, id) ==
  IF \E i \in 1..Len(recipientMap) : recipientMap[i].node.id = id
  THEN CHOOSE i \in 1..Len(recipientMap) : recipientMap[i].node.id = id
  ELSE 0

RECURSIVE collectRecipients(_, _, _)
collectRecipients(paths, sourceId, recipientMap) ==
  IF paths = <<>> THEN Returned(recipientMap)
  ELSE LET path == Head(paths) IN
       IF path.nodes = <<>> THEN Threw
       ELSE LET endNode == path.nodes[Len(path.nodes)]
                k == recipientIndex(recipientMap, endNode.id)
            IN IF endNode.id = sourceId
               THEN collectRecipients(Tail(paths), sourceId, recipientMap)
               ELSE IF k > 0
               THEN collectRecipients(Tail(paths), sourceId,
                      [recipientMap EXCEPT
                         ![k].totalAmount = @ + path.totalAmount,
                         ![k].pathCount = @ + 1])
               ELSE collectRecipients(Tail(paths), sourceId,
                      Append(recipientMap,
                             [node |-> endNode, totalAmount |-> path.totalAmount,
                              pathCount |-> 1]))

getDownstreamRecipients(net, sourceId, maxHops) ==
  LET paths == findPaths(net, sourceId, Null,
                 [maxHops |-> maxHops, filterByRelationship |-> Undefined,
                  filterByNodeType |-> Undefined])
      collected == collectRecipients(paths, sourceId, <<>>)
  IN IF collected.threw THEN Threw
     ELSE Returned(sortByAmountDesc(collected.value))

----------------------------------------------------------------------------
(* findIntermediaries *)

intermediaryIds(paths) ==
  UNION { { paths[p].nodes[i].id : i \in 2..(Len(paths[p].nodes) - 1) } : p \in 1..Len(paths) }

findIntermediaries(net, startId, endId, maxHops) ==
  LET paths == findPaths(net, startId, endId,
                 [maxHops |-> maxHops, filterByRelationship |-> Undefined,
                  filterByNodeType |-> Undefined])
  IN SelectSeq(net.nodes, LAMBDA n : n.id \in intermediaryIds(paths))

----------------------------------------------------------------------------
(* getDirectConnections, getNodeStats and identifyShellOrgs *)

getDirectConnectionsSwapped(net, nodeId) ==
  [incoming |-> SelectSeq(net.links, LAMBDA link : link.source = nodeId),
   outgoing |-> SelectSeq(net.links, LAMBDA link : link.target = nodeId)]

getDirectConnections(net, nodeId) ==
  [incoming |-> SelectSeq(net.links, LAMBDA link : link.target = nodeId),
   outgoing |-> SelectSeq(net.links, LAMBDA link : link.source = nodeId)]

RECURSIVE sumAmounts(_)
sumAmounts(links) ==
  IF links = <<>> THEN 0 ELSE linkAmount(Head(links)) + sumAmounts(Tail(links))

bumpType(connectedNodeTypes, type) ==
  IF type \in DOMAIN connectedNodeTypes
  THEN [connectedNodeTypes EXCEPT ![type] = @ + 1]
  ELSE connectedNodeTypes @@ (type :> 1)

RECURSIVE countNeighbourTypes(_, _, _, _)
countNeighbourTypes(net, links, incomingSide, connectedNodeTypes) ==
  IF links = <<>> THEN connectedNodeTypes
  ELSE LET otherId == IF incomingSide THEN Head(links).source ELSE Head(links).target
       IN countNeighbourTypes(net, Tail(links), incomingSide,
            IF nodeMapHas(net, otherId)
            THEN bumpType(connectedNodeTypes, nodeMapGet(net, otherId).type)
            ELSE connectedNodeTypes)

getNodeStats(net, nodeId) ==
  LET conn == getDirectConnections(net, nodeId) IN
  [incomingCount |-> Len(conn.incoming),
   outgoingCount |-> Len(conn.outgoing),
   totalFundingReceived |-> sumAmounts(conn.incoming),
   totalFundingGiven |-> sumAmounts(conn.outgoing),
   connectedNodeTypes |->
     countNeighbourTypes(net, conn.outgoing, FALSE,
       countNeighbourTypes(net, conn.incoming, TRUE, <<>>))]

abs(x) == IF x < 0 THEN 0 - x ELSE x

isShellType(node) == node.type = "foundation" \/ node.type = "shell_org"

isPassThroughInclusive(stats) ==
  /\ stats.incomingCount >= 1
  /\ stats.outgoingCount >= 2
  /\ 5 * abs(stats.totalFundingReceived - stats.totalFundingGiven)
       <= stats.totalFundingReceived

isPassThrough(stats) ==
  /\ stats.incomingCount >= 1
  /\ stats.outgoingCount >= 2
  /\ 5 * abs(stats.totalFundingReceived - stats.totalFundingGiven)
       < stats.totalFundingReceived

identifyShellOrgs(net) ==
  SelectSeq(net.nodes,
            LAMBDA node : isShellType(node) /\ isPassThrough(getNodeStats(net, node.id)))

----------------------------------------------------------------------------
(* findSharedBoardMembers *)

SetOf(list) == { list[i] : i \in 1..Len(list) }

findSharedFromFirst(nodeA, nodeB) ==
  IF nodeA.boardMembers = Undefined \/ nodeB.boardMembers = Undefined THEN <<>>
  ELSE LET setB == SetOf(nodeB.boardMembers[1])
       IN SelectSeq(nodeA.boardMembers[1], LAMBDA member : member \in setB)

findSharedKeepsAll(nodeA, nodeB) ==
  IF nodeA.boardMembers = Undefined \/ nodeB.boardMembers = Undefined THEN <<>>
  ELSE nodeB.boardMembers[1]

findSharedBoardMembers(nodeA, nodeB) ==
  IF nodeA.boardMembers = Undefined \/ nodeB.boardMembers = Undefined THEN <<>>
  ELSE LET setA == SetOf(nodeA.boardMembers[1])
       IN SelectSeq(nodeB.boardMembers[1], LAMBDA member : member \in setA)

----------------------------------------------------------------------------
(* SimpleCache: a Map from keys to entries {data, expiresAt}, read against  *)
(* the clock Date.now().  now is the clock in milliseconds since the cache  *)
(* was constructed; cache[key] is Undefined when the Map has no entry for   *)
(* key.  written is a history variable: for each key the arguments and the  *)
(* time of the last set that no delete or clear has followed.               *)

defaultTTLMinutes == 5

MsPerMinute == 60 * 1000

MaxMinutes == 6

Keys == {"k1", "k2"}

Payloads == {"v1", "v2"}

TTLChoices == { Undefined, <<0>>, <<1>> }

Instants == { m * MsPerMinute + e : m \in 0..MaxMinutes, e \in {0, 1} }

EmptyMap == [key \in Keys |-> Undefined]

CacheIdle ==
  /\ cache = EmptyMap
  /\ now = 0
  /\ written = EmptyMap

isExpiredAtDeadline(t, entry) == t >= entry.expiresAt

isExpired(t, entry) == t > entry.expiresAt

cacheDelete(map, key) == [map EXCEPT ![key] = Undefined]

get(map, t, key) ==
  IF map[key] = Undefined THEN [value |-> Null, cache |-> map]
  ELSE IF isExpired(t, map[key][1])
       THEN [value |-> Null, cache |-> cacheDelete(map, key)]
       ELSE [value |-> map[key][1].data, cache |-> map]

set(map, t, key, data, ttlMinutes) ==
  LET ttl == IF ttlMinutes = Undefined THEN defaultTTLMinutes ELSE ttlMinutes[1]
      expiresAt == t + ttl * 60 * 1000
  IN [map EXCEPT ![key] = << [data |-> data, expiresAt |-> expiresAt] >>]

has(map, t, key) ==
  LET got == get(map, t, key)
  IN [value |-> got.value # Null, cache |-> got.cache]

clearAll(map) == EmptyMap

RECURSIVE entriesOf(_, _)
entriesOf(map, keys) ==
  IF keys = {} THEN <<>>
  ELSE LET key == CHOOSE k \in keys : TRUE
       IN (IF map[key] = Undefined THEN <<>> ELSE << <<key, map[key][1]>> >>)
          \o entriesOf(map, keys \ {key})

RECURSIVE clearExpiredLoop(_, _, _)
clearExpiredLoop(map, t, entries) ==
  IF entries = <<>> THEN map
  ELSE clearExpiredLoop(IF isExpired(t, Head(entries)[2])
                        THEN cacheDelete(map, Head(entries)[1]) ELSE map,
                        t, Tail(entries))

clearExpiredKeepsNone(map, t) == EmptyMap

clearExpired(map, t) == clearExpiredLoop(map, t, entriesOf(map, Keys))

RECURSIVE countEntries(_, _, _)
countEntries(t, entries, stats) ==
  IF entries = <<>> THEN stats
  ELSE countEntries(t, Tail(entries),
                    IF isExpired(t, Head(entries)[2])
                    THEN [stats EXCEPT !.expired = @ + 1]
                    ELSE [stats EXCEPT !.valid = @ + 1])

getStats(map, t) ==
  LET counted == countEntries(t, entriesOf(map, Keys), [valid |-> 0, expired |-> 0])
  IN [total |-> Len(entriesOf(map, Keys)),
      valid |-> counted.valid,
      expired |-> counted.expired]

----------------------------------------------------------------------------
(* useForceLayout: the React hook that drives a d3-force simulation.  Two   *)
(* variants are in the repository: the plain one publishes on every tick,   *)
(* the throttled one publishes from requestAnimationFrame callbacks at most *)
(* every UPDATE_INTERVAL_MS.  variant says which one a behaviour runs.      *)
(*                                                                         *)
(* A position (x, y) is one point of the canvas and a pin (fx, fy) an       *)
(* optional point: the hook always writes the two coordinates together.     *)
(* alpha is counted in thousandths.  sims[g] is the simulation created by   *)
(* the g-th run of the effect, kept while something can still reach it (the *)
(* ref, its running timer, a pending animation frame).  The forces are not  *)
(* computed: a step moves each free node to any point.  sinceUpdate is      *)
(* performance.now() - lastUpdateRef.current, capped at the interval.       *)
(* pinned is a history variable: the point of the last setNodePosition with *)
(* fixed = true on each node of the current simulation that no releaseNode, *)
(* unpinned move or new simulation has followed.                            *)

MaxEpochs == 2
MaxFrames == 2
MaxCoord == 1

UPDATE_INTERVAL_MS == 33
AlphaMax == 1000
alphaMin == 1
ReheatAlpha == 300
FrameThreshold == 10
DecayDivisor == 8

Variants == {"plain", "throttled"}

LayoutIds == {"n1", "n2"}

InputChoices == { <<>>, <<"n1">> }

inputLinksOf(inputs) ==
  IF inputs = <<>> THEN <<>>
  ELSE << [source |-> inputs[1], target |-> inputs[Len(inputs)]] >>

Points == 0..MaxCoord

FrameDurations == {UPDATE_INTERVAL_MS}

NoFrame == 0

Handles == 1..(MaxFrames + MaxEpochs + 1)

EmptyList == [gen |-> 0, list |-> <<>>]

NoSims == [g \in 1..MaxEpochs |-> Undefined]

NoPins == [id \in LayoutIds |-> Undefined]

LayoutIdle ==
  /\ variant = "plain"
  /\ mounted = FALSE
  /\ epoch = 0
  /\ inputNodes = <<>>
  /\ sims = NoSims
  /\ simulationRef = 0
  /\ cleanupOf = 0
  /\ nodesState = EmptyList
  /\ linksState = EmptyList
  /\ isSimulating = TRUE
  /\ rafRef = NoFrame
  /\ frames = {}
  /\ sinceUpdate = UPDATE_INTERVAL_MS
  /\ pinned = NoPins

(* d3.forceSimulation(simNodes) with its forces: alpha 1, timer running *)
forceSimulation(g, inputs, xs) ==
  [gen |-> g,
   nodes |-> [i \in 1..Len(inputs) |-> [id |-> inputs[i], x |-> xs[i], fx |-> Undefined]],
   links |-> inputLinksOf(inputs),
   alpha |-> AlphaMax,
   timerOn |-> TRUE]

(* one d3 tick: alpha decays geometrically (by 1/DecayDivisor here, so that *)
(* a simulation settles in a handful of steps), a free node moves, a pinned *)
(* node sits on its pin                                                     *)
decay(alpha) == alpha \div DecayDivisor

tickNodes(simNodes, moved) ==
  [i \in 1..Len(simNodes) |->
     [simNodes[i] EXCEPT !.x = IF simNodes[i].fx = Undefined
                               THEN moved[i] ELSE simNodes[i].fx[1]]]

tick(S, moved) ==
  [S EXCEPT !.alpha = decay(S.alpha), !.nodes = tickNodes(S.nodes, moved)]

(* [...simulation.nodes()] and [...linkForce.links()] *)
snapshotOf(S) ==
  [gen |-> S.gen,
   list |-> [i \in 1..Len(S.nodes) |-> [id |-> S.nodes[i].id, x |-> S.nodes[i].x]]]

linksOf(S) == [gen |-> S.gen, list |-> S.links]

(* [...simulation.nodes()] copies the array, not the node objects: what is  *)
(* read from a published array are the positions the simulation's nodes     *)
(* have now, as long as the simulation is held                              *)
readNodes(shown, all) ==
  IF shown.gen # 0 /\ all[shown.gen] # Undefined
  THEN snapshotOf(all[shown.gen][1]).list ELSE shown.list

hasNode(S, nodeId) == \E i \in 1..Len(S.nodes) : S.nodes[i].id = nodeId

stopped(S) == [S EXCEPT !.timerOn = FALSE]

restarted(S, alpha) == [S EXCEPT !.alpha = alpha, !.timerOn = TRUE]

moveNodeUnpinned(S, nodeId, x, fixed) ==
  [S EXCEPT !.nodes =
     [i \in 1..Len(S.nodes) |->
        IF S.nodes[i].id = nodeId THEN [S.nodes[i] EXCEPT !.x = x] ELSE S.nodes[i]]]

moveNode(S, nodeId, x, fixed) ==
  [S EXCEPT !.nodes =
     [i \in 1..Len(S.nodes) |->
        IF S.nodes[i].id = nodeId
        THEN [S.nodes[i] EXCEPT !.fx = IF fixed THEN <<x>> ELSE Undefined, !.x = x]
        ELSE S.nodes[i]]]

unpinNode(S, nodeId) ==
  [S EXCEPT !.nodes =
     [i \in 1..Len(S.nodes) |->
        IF S.nodes[i].id = nodeId THEN [S.nodes[i] EXCEPT !.fx = Undefined]
        ELSE S.nodes[i]]]

(* requestAnimationFrame returns a handle that no pending frame holds *)
requestAnimationFrame(pending) ==
  CHOOSE h \in Handles :
    /\ \A f \in pending : f.handle # h
    /\ \A k \in Handles : (k < h) => \E f \in pending : f.handle = k

cancelAnimationFrame(pending, ref) == { f \in pending : f.handle # ref }

(* a simulation stays in sims while the ref, its timer or a frame can reach it *)
reachable(all, ref, pending) ==
  [g \in 1..MaxEpochs |->
     IF all[g] # Undefined
        /\ (g = ref \/ all[g][1].timerOn \/ \E f \in pending : f.gen = g)
     THEN all[g] ELSE Undefined]

----------------------------------------------------------------------------
(* FeedService: the round-robin proxy choice and the fallback loop of one   *)
(* feed.  feeds[s] is the activation of _fetchFeedWithFallback for source   *)
(* s: attempt is the loop counter, triedProxies the set of the code, proxy  *)
(* the proxy whose answer it awaits (or that served it), status the entry   *)
(* statusMap[s].  fetched is a history field: the proxies actually asked,   *)
(* in order.  A failure count only matters below FailureLimit, so it is     *)
(* kept up to MaxFailureCount.                                              *)

RSS_PROXIES == <<"rss2json", "allorigins", "corsproxy">>

FailureLimit == 3

MaxFailureCount == 4
MaxRounds == 2

Sources == <<"s1", "s2">>

Outcomes == {"items", "empty", "throws"}

NoFailures == [name \in SetOf(RSS_PROXIES) |-> 0]

NoFeed ==
  [pc |-> "idle", attempt |-> 0, triedProxies |-> {}, proxy |-> Null,
   status |-> "none", fetched |-> <<>>]

RECURSIVE getNextProxyLoop(_, _, _)
getNextProxyLoop(i, index, failures) ==
  IF i >= Len(RSS_PROXIES) THEN [proxy |-> RSS_PROXIES[1], proxyIndex |-> index]
  ELSE LET proxy == RSS_PROXIES[index + 1]
           next == (index + 1) % Len(RSS_PROXIES)
       IN IF failures[proxy] < FailureLimit \/ i = Len(RSS_PROXIES) - 1
          THEN [proxy |-> proxy, proxyIndex |-> next]
          ELSE getNextProxyLoop(i + 1, next, failures)

getNextProxy(index, failures) == getNextProxyLoop(0, index, failures)

recordProxySuccess(failures, proxyName) == [failures EXCEPT ![proxyName] = 0]

recordProxyFailure(failures, proxyName) ==
  [failures EXCEPT ![proxyName] = IF @ < MaxFailureCount THEN @ + 1 ELSE @]

(* the for loop of _fetchFeedWithFallback from its counter on, up to the    *)
(* next await of a proxy or to the end of the loop                          *)
RECURSIVE fallbackLoop(_, _, _)
fallbackLoop(feed, index, failures) ==
  IF feed.attempt >= Len(RSS_PROXIES)
  THEN [feed |-> [feed EXCEPT !.pc = "done", !.status = "error", !.proxy = Null],
        proxyIndex |-> index]
  ELSE LET got == getNextProxy(index, failures) IN
       IF got.proxy \in feed.triedProxies
       THEN fallbackLoop([feed EXCEPT !.attempt = @ + 1], got.proxyIndex, failures)
       ELSE [feed |-> [feed EXCEPT !.pc = "waiting", !.proxy = got.proxy,
                                   !.triedProxies = @ \cup {got.proxy},
                                   !.fetched = Append(@, got.proxy)],
             proxyIndex |-> got.proxyIndex]

(* sources.map(source => this.fetchSingleFeed(...)): each activation runs   *)
(* up to its first await before the next one starts                         *)
RECURSIVE fetchAll(_, _, _, _)
fetchAll(sources, all, index, failures) ==
  IF sources = <<>> THEN [feeds |-> all, proxyIndex |-> index]
  ELSE LET started == fallbackLoop([NoFeed EXCEPT !.status = "loading"], index, failures)
       IN fetchAll(Tail(sources), [all EXCEPT ![Head(sources)] = started.feed],
                   started.proxyIndex, failures)

----------------------------------------------------------------------------
(* Request deduplication of fetchWithCache (PoliticalApiService) and        *)
(* fetchSingleFeed (FeedService): requestCache maps a cache key to the      *)
(* pending request, inFlight is the set of network requests not yet         *)
(* answered.                                                                *)

MaxRequests == 3

NoRequests == [key \in Keys |-> Undefined]

ServiceIdle ==
  /\ proxyIndex = 0
  /\ proxyFailures = NoFailures
  /\ feeds = [s \in SetOf(Sources) |-> NoFeed]
  /\ round = 0
  /\ requestCache = NoRequests
  /\ inFlight = {}
  /\ nextRequest = 1

----------------------------------------------------------------------------
(* State machine *)

NoCall ==
  [op |-> "none", startId |-> Null, endId |-> Null, maxHops |-> 0,
   filterByRelationship |-> Undefined, filterByNodeType |-> Undefined]

NoFilters == <<Undefined, Undefined>>

FilterChoices == { << <<{"grant"}>>, Undefined >>, << Undefined, <<{"media"}>> >> }

FindPathsCalls ==
  { [op |-> "findPaths", startId |-> s, endId |-> e, maxHops |-> h,
     filterByRelationship |-> f[1], filterByNodeType |-> f[2]] :
       s \in Ids, e \in {Null} \cup Ids, h \in MinHops..MaxHops, f \in {NoFilters} }
  \cup
  { [op |-> "findPaths", startId |-> s, endId |-> e, maxHops |-> MaxHops,
     filterByRelationship |-> f[1], filterByNodeType |-> f[2]] :
       s \in Ids, e \in {Null}, f \in FilterChoices }

CallFindPaths ==
  /\ call.op = "none"
  /\ \E c \in FindPathsCalls :
       /\ call' = c
       /\ result' = Returned(findPaths(network, c.startId, c.endId,
                       [maxHops |-> c.maxHops,
                        filterByRelationship |-> c.filterByRelationship,
                        filterByNodeType |-> c.filterByNodeType]))
       /\ UNCHANGED <<network, serviceVars, cacheVars, layoutVars>>

CallGetDownstreamRecipients ==
  /\ call.op = "none"
  /\ \E s \in Ids, h \in MinHops..MaxHops :
       /\ call' = [op |-> "getDownstreamRecipients", startId |-> s, endId |-> Null,
                   maxHops |-> h, filterByRelationship |-> Undefined,
                   filterByNodeType |-> Undefined]
       /\ result' = getDownstreamRecipients(network, s, h)
       /\ UNCHANGED <<network, serviceVars, cacheVars, layoutVars>>

CallFindIntermediaries ==
  /\ call.op = "none"
  /\ \E s \in Ids, e \in Ids, h \in 1..MaxHops :
       /\ call' = [op |-> "findIntermediaries", startId |-> s, endId |-> e,
                   maxHops |-> h, filterByRelationship |-> Undefined,
                   filterByNodeType |-> Undefined]
       /\ result' = Returned(findIntermediaries(network, s, e, h))
       /\ UNCHANGED <<network, serviceVars, cacheVars, layoutVars>>

CallIdentifyShellOrgs ==
  /\ call.op = "none"
  /\ call' = [NoCall EXCEPT !.op = "identifyShellOrgs"]
  /\ result' = Returned(identifyShellOrgs(network))
  /\ UNCHANGED <<network, serviceVars, cacheVars, layoutVars>>

CallGetNodeStats ==
  /\ call.op = "none"
  /\ \E id \in Ids :
       /\ call' = [NoCall EXCEPT !.op = "getNodeStats", !.startId = id]
       /\ result' = Returned(getNodeStats(network, id))
       /\ UNCHANGED <<network, serviceVars, cacheVars, layoutVars>>

CallGetDirectConnections ==
  /\ call.op = "none"
  /\ \E id \in Ids :
       /\ call' = [NoCall EXCEPT !.op = "getDirectConnections", !.startId = id]
       /\ result' = Returned(getDirectConnections(network, id))
       /\ UNCHANGED <<network, serviceVars, cacheVars, layoutVars>>

CallFindSharedBoardMembers ==
  /\ call.op = "none"
  /\ \E i \in 1..Len(network.nodes), j \in 1..Len(network.nodes) :
       /\ call' = [NoCall EXCEPT !.op = "findSharedBoardMembers",
                                 !.startId = network.nodes[i].id,
                                 !.endId = network.nodes[j].id]
       /\ result' = Returned(findSharedBoardMembers(network.nodes[i], network.nodes[j]))
       /\ UNCHANGED <<network, serviceVars, cacheVars, layoutVars>>

InitBoard ==
  /\ network \in BoardNetworks
  /\ call = NoCall
  /\ result = Returned(<<>>)
  /\ CacheIdle
  /\ ServiceIdle
  /\ LayoutIdle

NextBoard == CallFindSharedBoardMembers

SpecBoard == InitBoard /\ [][NextBoard]_vars

CacheCall(op, key) == [op |-> op, key |-> key]

Set ==
  \E key \in Keys, data \in Payloads, ttlMinutes \in TTLChoices :
    /\ cache' = set(cache, now, key, data, ttlMinutes)
    /\ written' = [written EXCEPT
                     ![key] = << [data |-> data, at |-> now, ttlMinutes |-> ttlMinutes] >>]
    /\ call' = CacheCall("set", key)
    /\ result' = Returned(Undefined)
    /\ UNCHANGED <<network, serviceVars, now, layoutVars>>

Get ==
  \E key \in Keys :
    /\ cache' = get(cache, now, key).cache
    /\ call' = CacheCall("get", key)
    /\ result' = Returned(get(cache, now, key).value)
    /\ UNCHANGED <<network, serviceVars, now, written, layoutVars>>

Has ==
  \E key \in Keys :
    /\ cache' = has(cache, now, key).cache
    /\ call' = CacheCall("has", key)
    /\ result' = Returned(has(cache, now, key).value)
    /\ UNCHANGED <<network, serviceVars, now, written, layoutVars>>

Delete ==
  \E key \in Keys :
    /\ cache' = cacheDelete(cache, key)
    /\ written' = [written EXCEPT ![key] = Undefined]
    /\ call' = CacheCall("delete", key)
    /\ result' = Returned(Undefined)
    /\ UNCHANGED <<network, serviceVars, now, layoutVars>>

Clear ==
  /\ cache' = clearAll(cache)
  /\ written' = EmptyMap
  /\ call' = CacheCall("clear", Null)
  /\ result' = Returned(Undefined)
  /\ UNCHANGED <<network, serviceVars, now, layoutVars>>

ClearExpired ==
  /\ cache' = clearExpired(cache, now)
  /\ call' = CacheCall("clearExpired", Null)
  /\ result' = Returned(Undefined)
  /\ UNCHANGED <<network, serviceVars, now, written, layoutVars>>

GetStats ==
  /\ call' = CacheCall("getStats", Null)
  /\ result' = Returned(getStats(cache, now))
  /\ UNCHANGED <<network, serviceVars, cacheVars, layoutVars>>

TimePasses ==
  \E t \in Instants :
    /\ t > now
    /\ now' = t
    /\ call' = CacheCall("timePasses", Null)
    /\ result' = Returned(Undefined)
    /\ UNCHANGED <<network, serviceVars, cache, written, layoutVars>>

InitCache ==
  /\ network = [nodes |-> <<>>, links |-> <<>>]
  /\ call = NoCall
  /\ result = Returned(<<>>)
  /\ CacheIdle
  /\ ServiceIdle
  /\ LayoutIdle

NextCache ==
  Set \/ Get \/ Has \/ Delete \/ Clear \/ ClearExpired \/ GetStats \/ TimePasses

SpecCache == InitCache /\ [][NextCache]_vars

InitShell ==
  /\ network \in ShellNetworks
  /\ call = NoCall
  /\ result = Returned(<<>>)
  /\ CacheIdle
  /\ ServiceIdle
  /\ LayoutIdle

NextShell == CallIdentifyShellOrgs \/ CallGetNodeStats \/ CallGetDirectConnections

SpecShell == InitShell /\ [][NextShell]_vars

InitPaths ==
  /\ network \in PathNetworks
  /\ call = NoCall
  /\ result = Returned(<<>>)
  /\ CacheIdle
  /\ ServiceIdle
  /\ LayoutIdle

NextPaths == CallFindPaths \/ CallGetDownstreamRecipients \/ CallFindIntermediaries

SpecPaths == InitPaths /\ [][NextPaths]_vars

(* The hook's effect, callbacks and controls *)

(* the cleanup returned by the last run of the effect, if it returned one *)
cleanupSims == 
  IF cleanupOf = 0 THEN sims
  ELSE [sims EXCEPT ![cleanupOf] = << stopped(sims[cleanupOf][1]) >>]

cleanupFrames ==
  IF cleanupOf # 0 /\ variant = "throttled" /\ rafRef # NoFrame
  THEN cancelAnimationFrame(frames, rafRef) ELSE frames

cleanupRaf ==
  IF cleanupOf # 0 /\ variant = "throttled" THEN NoFrame ELSE rafRef

(* the body of the effect, run after the cleanup of the previous run *)
RunEffect(inputs) ==
  /\ epoch' = epoch + 1
  /\ inputNodes' = inputs
  /\ IF inputs = <<>>
     THEN /\ cleanupOf' = 0
          /\ simulationRef' = IF variant = "plain" THEN simulationRef ELSE 0
          /\ sims' = reachable(IF variant = "plain" \/ simulationRef = 0 THEN cleanupSims
                               ELSE [cleanupSims EXCEPT ![simulationRef] =
                                       << stopped(cleanupSims[simulationRef][1]) >>],
                               simulationRef', cleanupFrames)
          /\ nodesState' = IF variant = "plain" THEN EmptyList ELSE nodesState
          /\ linksState' = IF variant = "plain" THEN EmptyList ELSE linksState
          /\ pinned' = IF simulationRef' = simulationRef THEN pinned ELSE NoPins
     ELSE /\ \E xs \in [1..Len(inputs) -> Points] :
               sims' = reachable([cleanupSims EXCEPT
                                    ![epoch + 1] = << forceSimulation(epoch + 1, inputs, xs) >>],
                                 epoch + 1, cleanupFrames)
          /\ simulationRef' = epoch + 1
          /\ cleanupOf' = epoch + 1
          /\ pinned' = NoPins
          /\ UNCHANGED <<nodesState, linksState>>
  /\ frames' = cleanupFrames
  /\ rafRef' = cleanupRaf
  /\ UNCHANGED <<variant, isSimulating, sinceUpdate>>

Mount ==
  /\ ~ mounted /\ epoch = 0
  /\ mounted' = TRUE
  /\ \E inputs \in InputChoices : RunEffect(inputs)
  /\ UNCHANGED <<network, serviceVars, call, result, cacheVars>>

InputChange ==
  /\ mounted /\ epoch < MaxEpochs
  /\ mounted' = TRUE
  /\ \E inputs \in InputChoices : RunEffect(inputs)
  /\ UNCHANGED <<network, serviceVars, call, result, cacheVars>>

Unmount ==
  /\ mounted
  /\ mounted' = FALSE
  /\ frames' = cleanupFrames
  /\ rafRef' = NoFrame
  /\ sims' = reachable(cleanupSims, 0, cleanupFrames)
  /\ simulationRef' = 0
  /\ cleanupOf' = 0
  /\ inputNodes' = <<>>
  /\ nodesState' = EmptyList
  /\ linksState' = EmptyList
  /\ isSimulating' = TRUE
  /\ sinceUpdate' = UPDATE_INTERVAL_MS
  /\ pinned' = NoPins
  /\ UNCHANGED <<network, serviceVars, call, result, cacheVars, variant, epoch>>

(* simulation.on('end'): setIsSimulating(false), after updateState() in the *)
(* throttled variant                                                        *)
onEndFlagKept(flag) == flag

onEndFlag(flag) == FALSE

endSnapshotKept(S, shown) == shown

endSnapshot(S, shown) == IF variant = "throttled" THEN snapshotOf(S) ELSE shown

(* the d3 timer callback of simulation g: tick, 'tick' event, then 'end'   *)
(* when alpha fell below alphaMin                                           *)
SimStep ==
  \E g \in 1..MaxEpochs :
    /\ sims[g] # Undefined
    /\ sims[g][1].timerOn
    /\ \E moved \in [1..Len(sims[g][1].nodes) -> Points] :
         LET ticked == tick(sims[g][1], moved)
             ended == ticked.alpha < alphaMin
             S == IF ended THEN stopped(ticked) ELSE ticked
             asks == variant = "throttled" /\ rafRef = NoFrame
             handle == requestAnimationFrame(frames)
             pending == IF asks THEN frames \cup {[handle |-> handle, gen |-> g]} ELSE frames
             onTick == IF variant = "plain" THEN snapshotOf(S) ELSE nodesState
         IN /\ frames' = pending
            /\ rafRef' = IF asks THEN handle ELSE rafRef
            /\ sims' = reachable([sims EXCEPT ![g] = <<S>>], simulationRef, pending)
            /\ nodesState' = IF ~ mounted THEN nodesState
                        ELSE IF ended THEN endSnapshot(S, onTick) ELSE onTick
            /\ linksState' = IF mounted /\ (variant = "plain" \/ ended) THEN linksOf(S) ELSE linksState
            /\ isSimulating' = IF mounted /\ ended THEN onEndFlag(isSimulating) ELSE isSimulating
            /\ sinceUpdate' = IF variant = "throttled" /\ ended THEN 0 ELSE sinceUpdate
    /\ UNCHANGED <<network, serviceVars, call, result, cacheVars, variant, mounted, epoch, inputNodes,
                   simulationRef, cleanupOf, pinned>>

(* a pending animation frame fires: scheduleUpdate of the effect run f.gen *)
FrameFires ==
  \E f \in frames :
    LET S == sims[f.gen][1]
        hot == S.alpha > FrameThreshold
        due == sinceUpdate >= UPDATE_INTERVAL_MS
        updates == (~ hot) \/ due
        rest == frames \ {f}
        handle == requestAnimationFrame(rest)
        pending == IF hot THEN rest \cup {[handle |-> handle, gen |-> f.gen]} ELSE rest
    IN /\ frames' = pending
       /\ rafRef' = IF hot THEN handle ELSE rafRef
       /\ nodesState' = IF mounted /\ updates THEN snapshotOf(S) ELSE nodesState
       /\ linksState' = IF mounted /\ updates THEN linksOf(S) ELSE linksState
       /\ sinceUpdate' = IF updates THEN 0 ELSE sinceUpdate
       /\ isSimulating' = IF mounted /\ ~ hot THEN FALSE ELSE isSimulating
       /\ sims' = reachable(sims, simulationRef, pending)
       /\ UNCHANGED <<network, serviceVars, call, result, cacheVars, variant, mounted, epoch, inputNodes,
                      simulationRef, cleanupOf, pinned>>

(* time passes between two callbacks *)
FrameTimePasses ==
  /\ variant = "throttled"
  /\ sinceUpdate < UPDATE_INTERVAL_MS
  /\ \E d \in FrameDurations :
       sinceUpdate' = IF sinceUpdate + d >= UPDATE_INTERVAL_MS
                      THEN UPDATE_INTERVAL_MS ELSE sinceUpdate + d
  /\ UNCHANGED <<network, serviceVars, call, result, cacheVars, variant, mounted, epoch, inputNodes, sims,
                 simulationRef, cleanupOf, nodesState, linksState, isSimulating, rafRef, frames,
                 pinned>>

RestartSimulation ==
  /\ mounted
  /\ Cardinality(frames) < MaxFrames
  /\ IF simulationRef # 0
     THEN /\ isSimulating' = TRUE
          /\ rafRef' = IF variant = "throttled" THEN NoFrame ELSE rafRef
          /\ sims' = [sims EXCEPT ![simulationRef] = << restarted(@[1], AlphaMax) >>]
     ELSE UNCHANGED <<isSimulating, rafRef, sims>>
  /\ UNCHANGED <<network, serviceVars, call, result, cacheVars, variant, mounted, epoch, inputNodes,
                 simulationRef, cleanupOf, nodesState, linksState, frames, sinceUpdate, pinned>>

StopSimulation ==
  /\ mounted
  /\ IF simulationRef # 0
     THEN /\ isSimulating' = FALSE
          /\ sims' = reachable([sims EXCEPT ![simulationRef] = << stopped(@[1]) >>],
                               simulationRef, frames)
     ELSE UNCHANGED <<isSimulating, sims>>
  /\ UNCHANGED <<network, serviceVars, call, result, cacheVars, variant, mounted, epoch, inputNodes,
                 simulationRef, cleanupOf, nodesState, linksState, rafRef, frames, sinceUpdate,
                 pinned>>

SetNodePosition ==
  /\ mounted
  /\ \E nodeId \in LayoutIds, x \in Points, fixed \in BOOLEAN :
       /\ IF simulationRef # 0 /\ hasNode(sims[simulationRef][1], nodeId)
          THEN /\ sims' = [sims EXCEPT ![simulationRef] =
                             << restarted(moveNode(@[1], nodeId, x, fixed), ReheatAlpha) >>]
               /\ pinned' = [pinned EXCEPT ![nodeId] = IF fixed THEN <<x>> ELSE Undefined]
          ELSE UNCHANGED <<sims, pinned>>
  /\ UNCHANGED <<network, serviceVars, call, result, cacheVars, variant, mounted, epoch, inputNodes,
                 simulationRef, cleanupOf, nodesState, linksState, isSimulating, rafRef, frames,
                 sinceUpdate>>

ReleaseNode ==
  /\ mounted
  /\ \E nodeId \in LayoutIds :
       /\ IF simulationRef # 0 /\ hasNode(sims[simulationRef][1], nodeId)
          THEN /\ sims' = [sims EXCEPT ![simulationRef] = << unpinNode(@[1], nodeId) >>]
               /\ pinned' = [pinned EXCEPT ![nodeId] = Undefined]
          ELSE UNCHANGED <<sims, pinned>>
  /\ UNCHANGED <<network, serviceVars, call, result, cacheVars, variant, mounted, epoch, inputNodes,
                 simulationRef, cleanupOf, nodesState, linksState, isSimulating, rafRef, frames,
                 sinceUpdate>>

InitLayout ==
  /\ network = [nodes |-> <<>>, links |-> <<>>]
  /\ call = NoCall
  /\ result = Returned(<<>>)
  /\ CacheIdle
  /\ ServiceIdle
  /\ variant \in Variants
  /\ mounted = FALSE
  /\ epoch = 0
  /\ inputNodes = <<>>
  /\ sims = NoSims
  /\ simulationRef = 0
  /\ cleanupOf = 0
  /\ nodesState = EmptyList
  /\ linksState = EmptyList
  /\ isSimulating = TRUE
  /\ rafRef = NoFrame
  /\ frames = {}
  /\ sinceUpdate = UPDATE_INTERVAL_MS
  /\ pinned = NoPins

NextLayout ==
  \/ Mount \/ InputChange \/ Unmount \/ SimStep \/ FrameFires \/ FrameTimePasses
  \/ RestartSimulation \/ StopSimulation \/ SetNodePosition \/ ReleaseNode

SpecLayout == InitLayout /\ [][NextLayout]_vars

SpecLayoutFair == SpecLayout /\ WF_vars(SimStep) /\ WF_vars(FrameFires)

(* FeedService *)

(* fetchFeeds(sources) on a cache that holds none of the feeds (first call, *)
(* after clearCache() or after the entries expired)                         *)
FetchFeeds ==
  /\ round < MaxRounds
  /\ \A s \in SetOf(Sources) : feeds[s].pc # "waiting"
  /\ round' = round + 1
  /\ LET started == fetchAll(Sources, feeds, proxyIndex, proxyFailures)
     IN /\ feeds' = started.feeds
        /\ proxyIndex' = started.proxyIndex
  /\ UNCHANGED <<network, call, result, cacheVars, layoutVars, proxyFailures, dedupVars>>

(* the awaited _fetchWithProxy of source s settles: with items, with an     *)
(* empty list, or by throwing; the loop then runs on to its next await      *)
ProxyResponds ==
  \E s \in SetOf(Sources), outcome \in Outcomes :
    /\ feeds[s].pc = "waiting"
    /\ IF outcome = "items"
       THEN /\ feeds' = [feeds EXCEPT ![s] = [@ EXCEPT !.pc = "done", !.status = "ok"]]
            /\ proxyFailures' = recordProxySuccess(proxyFailures, feeds[s].proxy)
            /\ proxyIndex' = proxyIndex
       ELSE LET failures == IF outcome = "throws"
                            THEN recordProxyFailure(proxyFailures, feeds[s].proxy)
                            ELSE proxyFailures
                next == fallbackLoop([feeds[s] EXCEPT !.attempt = @ + 1], proxyIndex, failures)
            IN /\ feeds' = [feeds EXCEPT ![s] = next.feed]
               /\ proxyFailures' = failures
               /\ proxyIndex' = next.proxyIndex
    /\ UNCHANGED <<network, call, result, cacheVars, layoutVars, round, dedupVars>>

InitFeed ==
  /\ network = [nodes |-> <<>>, links |-> <<>>]
  /\ call = NoCall
  /\ result = Returned(<<>>)
  /\ CacheIdle
  /\ ServiceIdle
  /\ LayoutIdle

NextFeed == FetchFeeds \/ ProxyResponds

SpecFeed == InitFeed /\ [][NextFeed]_vars

(* fetchWithCache and clearCache *)

FetchWithCache ==
  \E key \in Keys :
    LET got == get(cache, now, key) IN
    /\ cache' = got.cache
    /\ call' = CacheCall("fetchWithCache", key)
    /\ IF got.value # Null
       THEN /\ result' = Returned([from |-> "cache", request |-> 0])
            /\ UNCHANGED dedupVars
       ELSE IF requestCache[key] # Undefined
       THEN /\ result' = Returned([from |-> "pending", request |-> requestCache[key][1]])
            /\ UNCHANGED dedupVars
       ELSE /\ nextRequest <= MaxRequests
            /\ result' = Returned([from |-> "fetcher", request |-> nextRequest])
            /\ inFlight' = inFlight \cup {[id |-> nextRequest, key |-> key]}
            /\ requestCache' = [requestCache EXCEPT ![key] = <<nextRequest>>]
            /\ nextRequest' = nextRequest + 1
    /\ UNCHANGED <<network, now, written, layoutVars, feedVars>>

(* the awaited request settles: the result is cached when it resolved, and  *)
(* the finally block deletes the key from requestCache                      *)
RequestSettles ==
  \E request \in inFlight, data \in Payloads, resolved \in BOOLEAN :
    /\ inFlight' = inFlight \ {request}
    /\ cache' = IF resolved THEN set(cache, now, request.key, data, <<1>>) ELSE cache
    /\ written' = IF resolved
                  THEN [written EXCEPT ![request.key] =
                          << [data |-> data, at |-> now, ttlMinutes |-> <<1>>] >>]
                  ELSE written
    /\ requestCache' = [requestCache EXCEPT ![request.key] = Undefined]
    /\ call' = CacheCall("settled", request.key)
    /\ result' = Returned(Undefined)
    /\ UNCHANGED <<network, now, layoutVars, feedVars, nextRequest>>

ClearCache ==
  /\ cache' = clearAll(cache)
  /\ written' = EmptyMap
  /\ requestCache' = NoRequests
  /\ call' = CacheCall("clearCache", Null)
  /\ result' = Returned(Undefined)
  /\ UNCHANGED <<network, now, layoutVars, feedVars, inFlight, nextRequest>>

InitDedup ==
  /\ network = [nodes |-> <<>>, links |-> <<>>]
  /\ call = NoCall
  /\ result = Returned(<<>>)
  /\ CacheIdle
  /\ ServiceIdle
  /\ LayoutIdle

NextDedup == FetchWithCache \/ RequestSettles \/ ClearCache

SpecDedup == InitDedup /\ [][NextDedup]_vars


----------------------------------------------------------------------------
(* Vocabulary of the claims, stated independently of the traversal *)

NodeIdSet(net) == { net.nodes[i].id : i \in 1..Len(net.nodes) }

IsFindPaths == call.op = "findPaths"
IsDownstream == call.op = "getDownstreamRecipients"
Unfiltered == call.filterByRelationship = Undefined /\ call.filterByNodeType = Undefined

IdsOf(nodes) == [i \in 1..Len(nodes) |-> nodes[i].id]
RefsOf(links) == [i \in 1..Len(links) |-> links[i].ref]
Distinct(seq) == \A i, j \in 1..Len(seq) : i # j => seq[i] # seq[j]
LastOf(seq) == seq[Len(seq)]

Joins(link, a, b) ==
  \/ link.source = a /\ link.target = b
  \/ link.source = b /\ link.target = a

(* The simple paths of 1..h edges from s in the undirected multigraph whose   *)
(* vertices are the ids and whose edges are all the links of the network.    *)
SimplePathsFrom(net, s, h) ==
  UNION { { [ids |-> p, refs |-> r] :
              p \in { q \in [1..(k+1) -> Ids] : q[1] = s /\ Distinct(q) },
              r \in [1..k -> 1..Len(net.links)] } : k \in 1..h }

IsSimplePath(net, sp) ==
  \A i \in 1..Len(sp.refs) : Joins(net.links[sp.refs[i]], sp.ids[i], sp.ids[i+1])

SimplePaths(net, s, h) ==
  { sp \in SimplePathsFrom(net, s, IF h < Cardinality(Ids) THEN h ELSE Cardinality(Ids) - 1) :
      IsSimplePath(net, sp) }

ResolvedIds(net, ids) == SelectSeq(ids, LAMBDA id : id \in NodeIdSet(net))

RECURSIVE StoredAmountTotal(_, _)
StoredAmountTotal(net, refs) ==
  IF refs = <<>> THEN 0
  ELSE (IF net.links[Head(refs)].amount = <<>> THEN 0 ELSE net.links[Head(refs)].amount[1])
       + StoredAmountTotal(net, Tail(refs))

NonIncreasing(seq) ==
  \A i, j \in 1..Len(seq) : i < j => seq[i].totalAmount >= seq[j].totalAmount

----------------------------------------------------------------------------
(* Claims about findPaths *)

\* C1: for a start node s of the graph, endId = null and maxHops = h >= 1, no
\* returned path names a node id twice and none has more than h edges.
Thm_C1_SimpleWithinBudget ==
  (IsFindPaths /\ call.endId = Null /\ call.maxHops >= 1
     /\ call.startId \in NodeIdSet(network))
  => \A i \in 1..Len(result.value) :
       /\ Distinct(IdsOf(result.value[i].nodes))
       /\ result.value[i].hopCount <= call.maxHops
       /\ Len(result.value[i].links) <= call.maxHops

\* C1 witness: a graph with a cycle through the start node, searched with the
\* hop limit reached by a returned path.
Wit_C1 ==
  /\ IsFindPaths /\ call.endId = Null /\ call.maxHops = 2 /\ Unfiltered
  /\ NodeIdSet(network) = Ids
  /\ \E sp \in SimplePaths(network, call.startId, 2) :
       Len(sp.refs) = 2
       /\ \E k \in 1..Len(network.links) : Joins(network.links[k], sp.ids[3], sp.ids[1])
  /\ \E i \in 1..Len(result.value) : result.value[i].hopCount = 2

\* C2: every path returned for an end id t starts at s and ends at t, t occurs
\* nowhere else in it, and the result is empty when t is not reachable from s
\* within maxHops edges (in particular when s = t).
Claim_C2_StartsAtSEndsAtT ==
  (IsFindPaths /\ call.endId # Null)
  => /\ \A i \in 1..Len(result.value) :
          LET ids == IdsOf(result.value[i].nodes) IN
          /\ ids # <<>>
          /\ ids[1] = call.startId
          /\ LastOf(ids) = call.endId
          /\ \A k \in 1..(Len(ids) - 1) : ids[k] # call.endId
     /\ (Unfiltered /\ ~ \E sp \in SimplePaths(network, call.startId, call.maxHops) :
                            LastOf(sp.ids) = call.endId)
        => result.value = <<>>

\* C3: with endId = null and maxHops = h >= 1 the result holds exactly one path
\* for each simple path of 1..h edges from s in the network read as an undirected
\* multigraph (every link usable in both directions), prefixes included, and
\* nothing else; each result carries the links of its path and the nodes its ids
\* resolve to.
Thm_C3_AllSimplePaths ==
  (IsFindPaths /\ call.endId = Null /\ Unfiltered /\ call.maxHops >= 1)
  => \A SP \in { SimplePaths(network, call.startId, call.maxHops) } :
       LET R == result.value
           Matches(path, sp) ==
             /\ RefsOf(path.links) = sp.refs
             /\ IdsOf(path.nodes) = ResolvedIds(network, sp.ids)
             /\ path.hopCount = Len(sp.refs)
       IN /\ Len(R) = Cardinality(SP)
          /\ \A sp \in SP : \E i \in 1..Len(R) : Matches(R[i], sp)
          /\ \A i \in 1..Len(R) : \E sp \in SP : Matches(R[i], sp)
          /\ \A i, j \in 1..Len(R) : i # j => RefsOf(R[i].links) # RefsOf(R[j].links)

\* C3 witness: the chain A -> B -> C searched from A with maxHops 2 returns the
\* two paths [A,B] and [A,B,C] and nothing else.
Wit_C3 ==
  /\ IsFindPaths /\ call.endId = Null /\ Unfiltered
  /\ call.startId = "A" /\ call.maxHops = 2
  /\ NodeIdSet(network) = Ids
  /\ Len(network.links) = 2
  /\ network.links[1].source = "A" /\ network.links[1].target = "B"
  /\ network.links[2].source = "B" /\ network.links[2].target = "C"
  /\ { IdsOf(result.value[i].nodes) : i \in 1..Len(result.value) }
       = { <<"A", "B">>, <<"A", "B", "C">> }
  /\ Len(result.value) = 2

\* C4: the result is ordered by totalAmount non-increasing, and a path's
\* totalAmount is the sum of the stored amounts of its links (absent = 0),
\* whatever the direction in which each link was walked.
Thm_C4_RankedByStoredAmount ==
  IsFindPaths
  => /\ NonIncreasing(result.value)
     /\ \A i \in 1..Len(result.value) :
          result.value[i].totalAmount
            = StoredAmountTotal(network, RefsOf(result.value[i].links))

\* C4 witness: A -> B (2), B -> C (1) searched from A: [A,B,C] with amount 3
\* comes before [A,B] with amount 2.
Wit_C4 ==
  /\ Wit_C3
  /\ IdsOf(result.value[1].nodes) = <<"A", "B", "C">>
  /\ result.value[1].totalAmount = 3
  /\ IdsOf(result.value[2].nodes) = <<"A", "B">>
  /\ result.value[2].totalAmount = 2

\* C5: a start id that is not the id of a node of the graph yields the empty
\* list, whatever the link list contains.
Claim_C5_UnknownStartIsEmpty ==
  (IsFindPaths /\ call.startId \notin NodeIdSet(network))
  => (~ result.threw /\ result.value = <<>>)

\* C6: no returned path has among its links a link whose source or target is
\* not the id of a node of the graph.
Claim_C6_DanglingNeverTraversed ==
  IsFindPaths
  => /\ ~ result.threw
     /\ \A i \in 1..Len(result.value) :
          \A k \in 1..Len(result.value[i].links) :
            /\ result.value[i].links[k].source \in NodeIdSet(network)
            /\ result.value[i].links[k].target \in NodeIdSet(network)

\* C7: maxHops < 1 yields the empty list and no exception, for every graph,
\* start id and end id.
Thm_C7_NoHopsIsEmpty ==
  (IsFindPaths /\ call.maxHops < 1) => (~ result.threw /\ result.value = <<>>)

\* C7 witness: maxHops = 0 on a start node that has a neighbour.
Wit_C7 ==
  /\ IsFindPaths /\ call.maxHops = 0
  /\ call.startId \in NodeIdSet(network)
  /\ SimplePaths(network, call.startId, 1) # {}
  /\ result.value = <<>>

----------------------------------------------------------------------------
(* Claims about getDownstreamRecipients *)

DownstreamPaths ==
  findPaths(network, call.startId, Null,
            [maxHops |-> call.maxHops, filterByRelationship |-> Undefined,
             filterByNodeType |-> Undefined])

EndIdOf(path) == LastOf(path.nodes).id

RECURSIVE SumOfPaths(_, _)
SumOfPaths(paths, idx) ==
  IF idx = {} THEN 0
  ELSE LET i == CHOOSE j \in idx : TRUE
       IN paths[i].totalAmount + SumOfPaths(paths, idx \ {i})

\* C8: for a source node s, getDownstreamRecipients returns one entry per node
\* r # s that ends at least one path of findPaths(G, s, null, {maxHops}); its
\* totalAmount is the sum of the totalAmount of the paths ending at r, its
\* pathCount their number; s never appears; the list is ordered by totalAmount
\* non-increasing.  (For an id s that is no node of the graph the same holds
\* whenever the call returns.)
Thm_C8_RecipientsAggregatePaths ==
  IsDownstream
  => /\ call.startId \in NodeIdSet(network) => ~ result.threw
     /\ ~ result.threw
        => \A P \in { DownstreamPaths } :
             LET R == result.value
                 EndingAt(r) == { j \in 1..Len(P) : EndIdOf(P[j]) = r }
                 Ends == { EndIdOf(P[j]) : j \in 1..Len(P) } \ {call.startId}
             IN /\ { R[i].node.id : i \in 1..Len(R) } = Ends
                /\ Len(R) = Cardinality(Ends)
                /\ \A i \in 1..Len(R) :
                     /\ R[i].node.id # call.startId
                     /\ R[i].pathCount = Cardinality(EndingAt(R[i].node.id))
                     /\ R[i].totalAmount = SumOfPaths(P, EndingAt(R[i].node.id))
                /\ NonIncreasing(R)

\* C8 witness: a source node with two recipients, one of them reached by
\* several paths.
Wit_C8 ==
  /\ IsDownstream /\ ~ result.threw
  /\ NodeIdSet(network) = Ids
  /\ Len(result.value) = 2
  /\ result.value[1].totalAmount > result.value[2].totalAmount
  /\ \E i \in 1..2 : result.value[i].pathCount >= 2

\* C9: when exactly one path within the hop limit leads from s to a node r, with
\* cumulative amount A, the recipients of s contain the entry (r, A, 1).
Claim_C9_SinglePathRecipient ==
  (IsDownstream /\ call.maxHops >= 1 /\ call.startId \in NodeIdSet(network))
  => \A r \in NodeIdSet(network) \ {call.startId} :
       LET To == { sp \in SimplePaths(network, call.startId, call.maxHops) :
                     LastOf(sp.ids) = r }
       IN Cardinality(To) = 1
          => /\ ~ result.threw
             /\ \E i \in 1..Len(result.value) :
                  /\ result.value[i].node.id = r
                  /\ result.value[i].pathCount = 1
                  /\ result.value[i].totalAmount
                       = StoredAmountTotal(network, (CHOOSE sp \in To : TRUE).refs)

----------------------------------------------------------------------------
(* Claims about identifyShellOrgs *)

IsShellCall == call.op = "identifyShellOrgs"

IncomingOf(net, id) == { k \in 1..Len(net.links) : net.links[k].target = id }
OutgoingOf(net, id) == { k \in 1..Len(net.links) : net.links[k].source = id }

RECURSIVE TotalOf(_, _)
TotalOf(net, idx) ==
  IF idx = {} THEN 0
  ELSE LET k == CHOOSE j \in idx : TRUE
       IN StoredAmountTotal(net, <<k>>) + TotalOf(net, idx \ {k})

Received(net, id) == TotalOf(net, IncomingOf(net, id))
Given(net, id) == TotalOf(net, OutgoingOf(net, id))

LikelyPassThrough(net, node) ==
  /\ node.type \in {"foundation", "shell_org"}
  /\ Cardinality(IncomingOf(net, node.id)) >= 1
  /\ Cardinality(OutgoingOf(net, node.id)) >= 2
  /\ LET d == Received(net, node.id) - Given(net, node.id)
     IN 100 * (IF d < 0 THEN 0 - d ELSE d) < 20 * Received(net, node.id)

Flagged(node) == \E i \in 1..Len(result.value) : result.value[i] = node

\* C10: identifyShellOrgs flags exactly the nodes of type foundation or
\* shell_org with at least one incoming and two outgoing links whose totals
\* differ by strictly less than 20% of the incoming total: with incoming total
\* 100 an outgoing total of 119 is flagged, 120 and 121 are not; nodes of any
\* other type are never flagged.
Thm_C10_ShellOrgThreshold ==
  IsShellCall
  => /\ ~ result.threw
     /\ result.value = SelectSeq(network.nodes, LAMBDA n : LikelyPassThrough(network, n))
     /\ \A i \in 1..Len(network.nodes) :
          LET n == network.nodes[i]
              gate == /\ n.type \in {"foundation", "shell_org"}
                      /\ Cardinality(IncomingOf(network, n.id)) >= 1
                      /\ Cardinality(OutgoingOf(network, n.id)) >= 2
                      /\ Received(network, n.id) = 100
          IN /\ (gate /\ Given(network, n.id) = 119) => Flagged(n)
             /\ (gate /\ Given(network, n.id) >= 120) => ~ Flagged(n)
             /\ n.type \notin {"foundation", "shell_org"} => ~ Flagged(n)

\* C10 witness: a shell_org with one incoming link of 100 and two outgoing
\* links totalling 119 is flagged.
Wit_C10 ==
  /\ IsShellCall
  /\ \E i \in 1..Len(network.nodes) :
       LET n == network.nodes[i] IN
       /\ n.type = "shell_org"
       /\ Cardinality(IncomingOf(network, n.id)) = 1
       /\ Cardinality(OutgoingOf(network, n.id)) = 2
       /\ Received(network, n.id) = 100
       /\ Given(network, n.id) = 119
       /\ Flagged(n)


----------------------------------------------------------------------------
(* Claims about findSharedBoardMembers *)

IsSharedCall == call.op = "findSharedBoardMembers"

BoardOf(id) == nodeMapGet(network, id).boardMembers

HasBoard(id) == BoardOf(id) # Undefined

RECURSIVE Restrict(_, _)
Restrict(list, S) ==
  IF list = <<>> THEN <<>>
  ELSE LET front == Restrict(SubSeq(list, 1, Len(list) - 1), S)
           last == list[Len(list)]
       IN IF last \in S THEN Append(front, last) ELSE front

\* C11 as stated: findSharedBoardMembers(a, b) returns the names present in
\* both boardMembers lists in the order in which they appear in the first
\* node's (a's) list, and the empty list when either node has no boardMembers.
Claim_C11_OrderOfFirstList ==
  IsSharedCall
  => /\ ~ result.threw
     /\ result.value =
          IF HasBoard(call.startId) /\ HasBoard(call.endId)
          THEN Restrict(BoardOf(call.startId)[1], SetOf(BoardOf(call.endId)[1]))
          ELSE <<>>

\* C11 amended: findSharedBoardMembers(a, b) returns the second node's (b's)
\* list with every name that does not occur in a's list removed, so the
\* order and the repetitions are those of b's list; it returns the empty
\* list when either node has no boardMembers.
Thm_C11_OrderOfSecondList ==
  IsSharedCall
  => /\ ~ result.threw
     /\ result.value =
          IF HasBoard(call.startId) /\ HasBoard(call.endId)
          THEN Restrict(BoardOf(call.endId)[1], SetOf(BoardOf(call.startId)[1]))
          ELSE <<>>

\* C11 witness: the two lists share two names in opposite orders and the
\* result lists them in the second node's order.
Wit_C11 ==
  /\ IsSharedCall
  /\ HasBoard(call.startId) /\ HasBoard(call.endId)
  /\ BoardOf(call.startId)[1] = <<"p", "q">>
  /\ BoardOf(call.endId)[1] = <<"q", "p">>
  /\ result.value = <<"q", "p">>

\* C12: findSharedBoardMembers(a, b) and findSharedBoardMembers(b, a) contain
\* the same set of names, whatever their order and repetitions.
Thm_C12_SharedSetSymmetric ==
  IsSharedCall
  => /\ ~ result.threw
     /\ SetOf(result.value)
          = SetOf(findSharedBoardMembers(nodeMapGet(network, call.endId),
                                         nodeMapGet(network, call.startId)))

\* C12 witness: two lists over different sets of names with a name in
\* common, where the two argument orders give different lists over the same
\* non-empty set of names.
Wit_C12 ==
  /\ IsSharedCall
  /\ HasBoard(call.startId) /\ HasBoard(call.endId)
  /\ SetOf(BoardOf(call.startId)[1]) # SetOf(BoardOf(call.endId)[1])
  /\ result.value # <<>>
  /\ result.value # findSharedBoardMembers(nodeMapGet(network, call.endId),
                                           nodeMapGet(network, call.startId))


----------------------------------------------------------------------------
(* Claims about getDirectConnections and getNodeStats *)

IsConnectionsCall == call.op = "getDirectConnections"
IsStatsCall == call.op = "getNodeStats"

NodeTypes == { network.nodes[i].type : i \in 1..Len(network.nodes) }

IsStoredSelection(links, idx) ==
  /\ Len(links) = Cardinality(idx)
  /\ { links[i].ref : i \in 1..Len(links) } = idx
  /\ \A i \in 1..Len(links) : links[i] = network.links[links[i].ref]
  /\ \A i, j \in 1..Len(links) : i < j => links[i].ref < links[j].ref

NeighboursOfType(net, id, t) ==
  Cardinality({ k \in IncomingOf(net, id) :
                  \E i \in 1..Len(net.nodes) :
                    net.nodes[i].id = net.links[k].source /\ net.nodes[i].type = t })
  + Cardinality({ k \in OutgoingOf(net, id) :
                    \E i \in 1..Len(net.nodes) :
                      net.nodes[i].id = net.links[k].target /\ net.nodes[i].type = t })

\* C13: the direct-connection analytics use the stored direction literally:
\* getDirectConnections(id) returns as incoming exactly the links with
\* target = id and as outgoing exactly the links with source = id;
\* getNodeStats(id) reports their counts, the totals of their amounts with an
\* absent amount counted as 0, and in connectedNodeTypes, per type, the number
\* of those links whose other end resolves to a node of that type; for a node
\* without links every count and total is 0 and the breakdown is empty, and
\* identifyShellOrgs never flags such a node.
Thm_C13_LiteralDirection ==
  /\ IsConnectionsCall
     => /\ ~ result.threw
        /\ IsStoredSelection(result.value.incoming, IncomingOf(network, call.startId))
        /\ IsStoredSelection(result.value.outgoing, OutgoingOf(network, call.startId))
  /\ IsStatsCall
     => /\ ~ result.threw
        /\ result.value.incomingCount = Cardinality(IncomingOf(network, call.startId))
        /\ result.value.outgoingCount = Cardinality(OutgoingOf(network, call.startId))
        /\ result.value.totalFundingReceived = Received(network, call.startId)
        /\ result.value.totalFundingGiven = Given(network, call.startId)
        /\ DOMAIN result.value.connectedNodeTypes
             = { t \in NodeTypes : NeighboursOfType(network, call.startId, t) > 0 }
        /\ \A t \in DOMAIN result.value.connectedNodeTypes :
             result.value.connectedNodeTypes[t] = NeighboursOfType(network, call.startId, t)
        /\ (IncomingOf(network, call.startId) \cup OutgoingOf(network, call.startId) = {})
             => /\ result.value.incomingCount = 0
                /\ result.value.outgoingCount = 0
                /\ result.value.totalFundingReceived = 0
                /\ result.value.totalFundingGiven = 0
                /\ DOMAIN result.value.connectedNodeTypes = {}
  /\ IsShellCall
     => \A i \in 1..Len(network.nodes) :
          (IncomingOf(network, network.nodes[i].id)
             \cup OutgoingOf(network, network.nodes[i].id) = {})
          => ~ Flagged(network.nodes[i])

\* C13 witness: the statistics of a node with two incoming links from nodes
\* of one type, one of them without an amount, and one outgoing link whose
\* target is no node of the network: the totals differ and only the incoming
\* neighbours are counted.
Wit_C13 ==
  /\ IsStatsCall
  /\ call.startId = "B"
  /\ ~ nodeMapHas(network, "C")
  /\ result.value.incomingCount = 2
  /\ result.value.outgoingCount = 1
  /\ \E k \in IncomingOf(network, "B") : network.links[k].amount = Undefined
  /\ result.value.totalFundingReceived = 100
  /\ result.value.totalFundingGiven = 21
  /\ DOMAIN result.value.connectedNodeTypes = {"donor"}
  /\ result.value.connectedNodeTypes["donor"] = 2


----------------------------------------------------------------------------
(* Claims about the TTL cache *)

IsGet == call.op = "get"
IsHas == call.op = "has"

TtlOf(w) == IF w.ttlMinutes = Undefined THEN defaultTTLMinutes ELSE w.ttlMinutes[1]

\* The last set of key is still within its time to live at time t.
Fresh(key, t) ==
  /\ written[key] # Undefined
  /\ t <= written[key][1].at + TtlOf(written[key][1]) * MsPerMinute

Stored(map) == { key \in Keys : map[key] # Undefined }

\* C19: after set(key, v, ttl), with ttl defaulting to the cache's default
\* TTL, get(key) returns v and has(key) is true at every time up to ttl
\* minutes later, and get(key) returns null and has(key) is false at every
\* later time, unless the key is set again; get and has of a key that was
\* never set (or was deleted or cleared since) return null and false.
Thm_C19_TimeToLive ==
  /\ IsGet
     => /\ ~ result.threw
        /\ result.value = IF Fresh(call.key, now)
                          THEN written[call.key][1].data ELSE Null
  /\ IsHas
     => /\ ~ result.threw
        /\ result.value = Fresh(call.key, now)

\* C19 witness: a key set without a ttl is read exactly defaultTTLMinutes
\* later and returns its value, while the other key, set at the same time
\* with a ttl of one minute, is no longer stored.
Wit_C19 ==
  /\ IsGet
  /\ written[call.key] # Undefined
  /\ written[call.key][1].ttlMinutes = Undefined
  /\ now = written[call.key][1].at + defaultTTLMinutes * MsPerMinute
  /\ result.value = written[call.key][1].data
  /\ \E other \in Keys \ {call.key} :
       /\ written[other] # Undefined
       /\ written[other][1].at = written[call.key][1].at
       /\ written[other][1].ttlMinutes = <<1>>
       /\ cache[other] = Undefined

\* C20: getStats() reports total = the number of stored entries and
\* valid + expired = total, where expired counts the stored entries whose
\* time to live has elapsed; clearExpired() removes exactly those entries and
\* leaves every other entry as it was, retrievable with its value; delete(key)
\* removes only that key and clear() removes all.
Thm_C20_ExpiredAccounting ==
  [][ /\ call'.op = "getStats"
         => /\ result'.value.total = Cardinality(Stored(cache))
            /\ result'.value.expired
                 = Cardinality({ key \in Stored(cache) : ~ Fresh(key, now) })
            /\ result'.value.valid + result'.value.expired = result'.value.total
            /\ cache' = cache
      /\ call'.op = "clearExpired"
         => /\ Stored(cache') = { key \in Stored(cache) : Fresh(key, now) }
            /\ \A key \in Stored(cache') :
                 /\ cache'[key] = cache[key]
                 /\ cache'[key][1].data = written[key][1].data
      /\ call'.op = "delete"
         => /\ cache'[call'.key] = Undefined
            /\ \A key \in Keys \ {call'.key} : cache'[key] = cache[key]
      /\ call'.op = "clear"
         => Stored(cache') = {}
    ]_vars

\* C20 witness: clearExpired has run with two keys written, one whose time
\* to live has elapsed and is gone, one within its time to live and stored.
Wit_C20 ==
  /\ call.op = "clearExpired"
  /\ \E gone \in Keys, kept \in Keys :
       /\ written[gone] # Undefined /\ ~ Fresh(gone, now) /\ cache[gone] = Undefined
       /\ Fresh(kept, now) /\ cache[kept] # Undefined


----------------------------------------------------------------------------
(* Claims about the force layout hook *)

\* The simulation of the current, non-empty input: the one the last run of
\* the effect created.
HasLayout == mounted /\ cleanupOf # 0

Layout == sims[cleanupOf][1]

Stepping(g) == sims[g] # Undefined /\ sims[g][1].timerOn

Settled ==
  /\ HasLayout
  /\ ~ Layout.timerOn
  /\ Layout.alpha < alphaMin
  /\ isSimulating = FALSE

\* Stopped by stopSimulation() before alpha fell below alphaMin.
Halted == HasLayout /\ ~ Layout.timerOn /\ Layout.alpha >= alphaMin

Reheat == Mount \/ InputChange \/ RestartSimulation \/ SetNodePosition

PositionsOf(S) == [i \in 1..Len(S.nodes) |-> S.nodes[i].x]

\* C14 as stated: for a non-empty input, if from some point on no restart,
\* pin or input change occurs, the layout reaches the settled state (alpha
\* below the threshold, isSimulating = false); once settled, no node position
\* changes until restartSimulation() or a pin is called.
Claim_C14_AlwaysSettles ==
  /\ (<>[](mounted /\ inputNodes # <<>>) /\ <>[][~ Reheat]_vars) => <>[]Settled
  /\ [][(Settled /\ HasLayout' /\ ~ Reheat)
          => PositionsOf(Layout') = PositionsOf(Layout)]_vars

\* C14 amended: for a non-empty input, if from some point on no restart, pin
\* or input change occurs and the simulation is not left stopped by
\* stopSimulation(), the layout reaches the settled state (alpha below
\* alphaMin, timer stopped, isSimulating = false); every step without a
\* reheat lowers alpha geometrically, which bounds the number of steps; once
\* settled, no node position changes until restartSimulation(), a pin or a
\* new input.
Thm_C14_SettlesUnlessStopped ==
  /\ (<>[](mounted /\ inputNodes # <<>> /\ ~ Halted) /\ <>[][~ Reheat]_vars)
       => <>[]Settled
  /\ [][(HasLayout /\ HasLayout' /\ ~ Reheat /\ Layout'.alpha # Layout.alpha)
          => /\ Layout.timerOn
             /\ Layout.alpha >= alphaMin
             /\ Layout'.alpha * DecayDivisor <= Layout.alpha]_vars
  /\ [][(Settled /\ HasLayout' /\ ~ Reheat)
          => PositionsOf(Layout') = PositionsOf(Layout)]_vars

\* C14 witness: a layout that was re-heated by a pin has settled with the
\* node on its pin and isSimulating = false.
Wit_C14 ==
  /\ Settled
  /\ pinned["n1"] # Undefined
  /\ variant = "throttled"

\* C15: after setNodePosition(id, x, y) with fixed = true on a node of the
\* layout, the position of node id is exactly (x, y) after the call and at
\* the end of every later simulation step, whatever the forces, until
\* releaseNode(id), a new pin or move of id, or a new simulation.
Thm_C15_PinHolds ==
  (mounted /\ simulationRef # 0)
  => \A i \in 1..Len(sims[simulationRef][1].nodes) :
       LET node == sims[simulationRef][1].nodes[i]
       IN pinned[node.id] # Undefined => node.x = pinned[node.id][1]

\* C15 witness: a pinned node of a simulation that is still stepping and has
\* taken at least one step since the pin.
Wit_C15 ==
  /\ mounted /\ simulationRef # 0
  /\ pinned["n1"] # Undefined
  /\ sims[simulationRef][1].timerOn
  /\ sims[simulationRef][1].alpha < ReheatAlpha
  /\ sims[simulationRef][1].alpha >= alphaMin

\* C16 as stated: whenever the input node list is empty, at first mount or
\* after an earlier non-empty graph, the exposed nodes and links are empty,
\* no simulation is stepping and isSimulating is false.
Claim_C16_EmptyInputSettled ==
  (mounted /\ inputNodes = <<>>)
  => /\ nodesState.list = <<>>
     /\ linksState.list = <<>>
     /\ \A g \in 1..MaxEpochs : ~ Stepping(g)
     /\ isSimulating = FALSE

\* C17: whenever a simulation of the mounted hook settles (its step brings
\* alpha below alphaMin and stops the timer), that same step publishes the
\* settled positions and links and sets isSimulating to false, whatever the
\* throttle and the pending animation frames.
Thm_C17_FinalSnapshot ==
  [][\A g \in 1..MaxEpochs :
       (/\ mounted
        /\ Stepping(g)
        /\ sims'[g] # Undefined
        /\ ~ sims'[g][1].timerOn
        /\ sims'[g][1].alpha < alphaMin)
       => /\ nodesState' = snapshotOf(sims'[g][1])
          /\ linksState' = linksOf(sims'[g][1])
          /\ isSimulating' = FALSE]_vars

\* C17 witness: the throttled layout has settled while an animation frame
\* is still pending, so the frame loop has not run since, and the settled
\* positions are the ones shown.
Wit_C17 ==
  /\ variant = "throttled"
  /\ Settled
  /\ sinceUpdate = 0
  /\ frames # {}
  /\ nodesState = snapshotOf(Layout)

\* C18 as stated: once the hook is torn down or its input changes, the
\* superseded simulation is stopped and every callback scheduled on its
\* behalf is cancelled: no timer and no animation frame of a superseded
\* simulation remains and no snapshot of one is published.
NoLeak ==
  \A g \in 1..MaxEpochs :
    (~ mounted \/ g # cleanupOf)
    => /\ ~ Stepping(g)
       /\ \A f \in frames : f.gen # g

Claim_C18_CleanupCancels ==
  [][/\ NoLeak'
     /\ nodesState' # nodesState => nodesState'.gen \in {0, cleanupOf'}]_vars

----------------------------------------------------------------------------
(* Further claims about the path finder and the analytics *)

TypeOfId(net, id) ==
  (CHOOSE n \in { net.nodes[i] : i \in 1..Len(net.nodes) } : n.id = id).type

HasTypeFilter == IsFindPaths /\ call.filterByNodeType # Undefined

AllowedTypes == call.filterByNodeType[1]

\* C21: with a node-type filter, every node of every returned path other than
\* the start node has an allowed type, and the start node is exempt: every
\* simple path from the start within the hop limit whose other nodes are
\* nodes of an allowed type is returned, whatever the type of the start.
Thm_C21_FilterExemptsStart ==
  HasTypeFilter
  => /\ \A i \in 1..Len(result.value) :
          \A k \in 1..Len(result.value[i].nodes) :
            result.value[i].nodes[k].id # call.startId
            => result.value[i].nodes[k].type \in AllowedTypes
     /\ \A sp \in SimplePaths(network, call.startId, call.maxHops) :
          (\A k \in 2..Len(sp.ids) :
             /\ sp.ids[k] \in NodeIdSet(network)
             /\ TypeOfId(network, sp.ids[k]) \in AllowedTypes)
          => \E i \in 1..Len(result.value) :
               /\ RefsOf(result.value[i].links) = sp.refs
               /\ IdsOf(result.value[i].nodes) = ResolvedIds(network, sp.ids)

\* C21 witness: the start node's own type is not allowed, it has a neighbour
\* of an allowed type and one of a type that is not, and the result holds
\* the path to the first only.
Wit_C21 ==
  /\ HasTypeFilter
  /\ call.startId \in NodeIdSet(network)
  /\ TypeOfId(network, call.startId) \notin AllowedTypes
  /\ \E k \in 1..Len(network.links), b \in NodeIdSet(network) :
       /\ Joins(network.links[k], call.startId, b)
       /\ b # call.startId
       /\ TypeOfId(network, b) \notin AllowedTypes
  /\ Len(result.value) = 1
  /\ Len(result.value[1].nodes) = 2
  /\ result.value[1].nodes[1].id = call.startId
  /\ result.value[1].nodes[2].type \in AllowedTypes

IsAnalytics ==
  call.op \in {"findPaths", "getDownstreamRecipients", "findIntermediaries",
               "getDirectConnections", "getNodeStats", "identifyShellOrgs",
               "findSharedBoardMembers"}

\* C22 as stated: every analytics operation returns a result and never throws,
\* for every graph, dangling link endpoints and ids that are no node included.
Claim_C22_Total == IsAnalytics => ~ result.threw

\* C29 as stated: every returned path has hopCount + 1 nodes, hopCount is the
\* number of its links, its first node is the start node and its i-th link
\* joins its i-th and (i+1)-th node, for every graph, dangling links included.
Claim_C29_WellFormed ==
  IsFindPaths
  => \A i \in 1..Len(result.value) :
       LET path == result.value[i] IN
       /\ Len(path.nodes) = path.hopCount + 1
       /\ path.hopCount = Len(path.links)
       /\ path.nodes[1].id = call.startId
       /\ \A k \in 1..Len(path.links) :
            Joins(path.links[k], path.nodes[k].id, path.nodes[k+1].id)

----------------------------------------------------------------------------
(* Claims about the controls of the force layout hook *)

\* The simulation the controls act on: the one simulationRef names.
HasRef == mounted /\ simulationRef # 0

RefSim == sims[simulationRef][1]

PinsOf(S) == [i \in 1..Len(S.nodes) |-> S.nodes[i].fx]

\* C23 as stated: a setNodePosition that finds its node never lowers alpha and
\* leaves the simulation stepping; releaseNode changes no position and no pin
\* other than clearing one.
Claim_C23_ReheatNeverLowers ==
  /\ [][(SetNodePosition /\ HasRef /\ sims' # sims)
          => /\ sims'[simulationRef][1].alpha >= RefSim.alpha
             /\ sims'[simulationRef][1].timerOn]_vars
  /\ [][(ReleaseNode /\ HasRef)
          => /\ PositionsOf(sims'[simulationRef][1]) = PositionsOf(RefSim)
             /\ \A i \in 1..Len(RefSim.nodes) :
                  PinsOf(sims'[simulationRef][1])[i] \in {Undefined, PinsOf(RefSim)[i]}]_vars

\* The hook shows a simulation that is not stepping, with isSimulating false.
Quiet == HasRef /\ ~ RefSim.timerOn /\ isSimulating = FALSE

\* C24 as stated: stopSimulation() leaves the simulation's timer stopped,
\* isSimulating false and no animation frame of the simulation pending, and
\* from then on, until a restart, a pin or a new input, no snapshot is
\* published and isSimulating stays false.
Claim_C24_StopIsQuiet ==
  /\ [][(StopSimulation /\ HasRef)
          => /\ Quiet'
             /\ \A f \in frames' : f.gen # simulationRef]_vars
  /\ [][(Quiet /\ mounted' /\ ~ Reheat)
          => /\ nodesState' = nodesState
             /\ linksState' = linksState
             /\ isSimulating' = FALSE]_vars

\* C25 as stated: restartSimulation() on the layout of a non-empty input sets
\* alpha to its maximum and isSimulating to true and resumes stepping, with
\* every position and pin unchanged; with an empty input it changes nothing.
Claim_C25_RestartKeepsLayout ==
  [][RestartSimulation
       => IF inputNodes # <<>>
          THEN /\ Layout'.alpha = AlphaMax
               /\ Layout'.timerOn
               /\ isSimulating' = TRUE
               /\ PositionsOf(Layout') = PositionsOf(Layout)
               /\ PinsOf(Layout') = PinsOf(Layout)
          ELSE UNCHANGED vars]_vars

\* C26 as stated: while the published nodes array stays the same, the
\* positions read from it stay the same, whatever step, pin or release
\* happens.
Claim_C26_SnapshotIsStable ==
  [][(mounted /\ mounted' /\ nodesState' = nodesState)
       => readNodes(nodesState', sims') = readNodes(nodesState, sims)]_vars

\* C30 as stated: whenever the simulation the hook holds is stepping,
\* isSimulating is true.
Claim_C30_FlagAgrees ==
  (HasRef /\ RefSim.timerOn) => isSimulating = TRUE

----------------------------------------------------------------------------
(* Claims about the feed fallback and the request deduplication *)

\* C27 as stated: a feed asks each proxy at most once, a proxy that returned
\* items has its failure count reset, and a feed is marked 'error' only when
\* every configured proxy has been asked, whatever the failure counts and the
\* other feeds sharing the round-robin index.
Claim_C27_ErrorAfterAllProxies ==
  /\ [](\A s \in SetOf(Sources) :
          /\ Distinct(feeds[s].fetched)
          /\ feeds[s].status = "error" => SetOf(feeds[s].fetched) = SetOf(RSS_PROXIES))
  /\ [][\A s \in SetOf(Sources) :
          (feeds[s].status = "loading" /\ feeds'[s].status = "ok")
          => proxyFailures'[feeds'[s].proxy] = 0]_vars

\* C28 as stated: at most one request per cache key is in flight, and every
\* request in flight is the pending entry of its key, so that a further call
\* for the key joins it, whatever calls, completions and clearCache() occur.
Claim_C28_OneRequestPerKey ==
  /\ \A r1, r2 \in inFlight : r1.key = r2.key => r1 = r2
  /\ \A r \in inFlight : requestCache[r.key] = << r.id >>

====
